---- MODULE Spec2Model ----
(***************************************************************************)
(* A model of the batch speech synthesis pipeline of f5-conversation-tts:  *)
(*   - AgentF5TTS.generate_emotion_speech / generate_speech and            *)
(*     AgentF5TTS._combine_audio_files          (src/AgentF5TTSChunk.py)   *)
(*   - assign_speaker_voices and generate_conversation_audio               *)
(*     (src/conversational_agent.py and src/create_conversation.py)        *)
(*                                                                         *)
(* Spec     : one run of an AgentF5TTS method over an input text file.     *)
(* SpecConv : one run of generate_conversation_audio over dialog data.     *)
(* SpecCap  : generate_conversation_audio over more rows than max_audios.  *)
(* SpecParse: the tag parsing of one line of generate_emotion_speech.      *)
(* SpecRace : two runs of _combine_audio_files in one working directory.   *)
(***************************************************************************)
EXTENDS Integers, Sequences, FiniteSets, TLC

VARIABLES
    \* ---- AgentF5TTS run (src/AgentF5TTSChunk.py) ----
    method,                 \* which method runs
    text_file_exists,       \* does text_file exist
    file_lines,             \* the raw lines of text_file
    output_audio_file,      \* the output path: its directory and base name
    output_has_dir,         \* does output_audio_file have a directory part
    delay,                  \* self.delay
    speaker_emotion_refs,   \* (speaker, emotion) -> reference path, or None
    ref_audio,              \* generate_speech's ref_audio argument
    convert_to_mp3,
    disk,                   \* the paths that exist
    file_list,              \* the content of file_list.txt
    lines,                  \* the stripped non-blank lines
    i,                      \* lines already handled by the for loop
    temp_files,
    pc,
    infer_calls,            \* history: the calls of self.model.infer
    ffmpeg_calls,           \* history: the runs of ffmpeg
    log,                    \* the logging.error records
    \* ---- generate_conversation_audio ----
    variant,                \* which source file's generate_conversation_audio
    dialog_data,            \* the Speaker column, one entry per row
    dataset,                \* the reference corpus
    speaker_ids,            \* list(set(speakers))
    speaker_voices,
    speaker_texts,
    row,                    \* rows already handled by the for loop
    generated_count,
    temp_output_path,       \* the local of create_conversation.py
    cdisk,                  \* transient and output files that exist
    cpc,
    error,                  \* the exception that left the run
    turns,                  \* history: the dialog turns entered
    \* ---- tag parsing of one line ----
    tag_line,               \* the line, as a sequence of tokens
    tag_result,             \* speaker, emotion and generation text, once parsed
    \* ---- two concurrent runs of _combine_audio_files ----
    rpc,                    \* where each run is
    rsegs,                  \* each run's temp_files
    rlist,                  \* the content of the shared file_list.txt
    rdisk,                  \* the paths that exist
    rcalls                  \* history: the manifests the concat runs read

ttsVars == <<method, text_file_exists, file_lines, output_audio_file,
             output_has_dir, delay, speaker_emotion_refs, ref_audio, convert_to_mp3, disk, file_list,
             lines, i, temp_files, pc, infer_calls, ffmpeg_calls, log>>

convVars == <<variant, dialog_data, dataset, speaker_ids, speaker_voices,
              speaker_texts, row, generated_count, temp_output_path, cdisk,
              cpc, error, turns>>

auxVars == <<tag_line, tag_result, rpc, rsegs, rlist, rdisk, rcalls>>

vars == <<ttsVars, convVars, auxVars>>

\* ------------------------------------------------------------------ bounds

MaxLines == 3
MaxTurns == 3
MaxSpeakers == 3
MaxCorpus == 2
MaxTokens == 6
MaxSegs == 2

\* ------------------------------------------------------------- helpers

None == <<"None", 0>>
NoTag == <<"", "">>

SeqsUpTo(S, n) == UNION {[1..k -> S] : k \in 0..n}

RECURSIVE SelectSeqOf(_, _)

SelectSeqOf(s, keep) ==
    IF s = <<>> THEN <<>>
    ELSE IF Head(s) \in keep THEN <<Head(s)>> \o SelectSeqOf(Tail(s), keep)
         ELSE SelectSeqOf(Tail(s), keep)

Range(s) == {s[k] : k \in DOMAIN s}

\* ------------------------------------------------------------- paths

TextFile == <<"text_file", 0>>
OutputFile == <<"output_audio_file", 0>>
OutputDir == <<"dirname(output_audio_file)", 0>>
ListFile == <<"file_list.txt", 0>>
RefA == <<"ref_audios/a.wav", 0>>

\* temp_file = f"{output_audio_file}_line{i + 1}.wav"
TempFile(n) == <<"output_audio_file_line", n + 1>>

\* the output paths tried: a path is its directory and its base name, each a
\* sequence of tokens in which ".wav" occurs only as a whole token
ExamplePath == [dir |-> <<"output">>, base |-> <<"final_output", ".wav">>]
NoDirPath == [dir |-> <<>>, base |-> <<"final_output", ".wav">>]
NoWavPath == [dir |-> <<"output">>, base |-> <<"final_output">>]
WavDirPath == [dir |-> <<"takes", ".wav">>, base |-> <<"final_output", ".wav">>]
OutputPaths == {ExamplePath, NoDirPath, NoWavPath, WavDirPath}

\* os.path.dirname(output_audio_file)
Dirname(path) == path.dir

\* str.replace(".wav", ".mp3"): every occurrence, anywhere in the string
ReplaceWav(tokens) ==
    [k \in DOMAIN tokens |-> IF tokens[k] = ".wav" THEN ".mp3" ELSE tokens[k]]

\* mp3_output = output_audio_file.replace(".wav", ".mp3")
Mp3OutputPath ==
    [dir |-> ReplaceWav(output_audio_file.dir),
     base |-> ReplaceWav(output_audio_file.base)]

\* the file mp3_output names: output_audio_file itself when nothing is replaced
Mp3Output ==
    IF Mp3OutputPath = output_audio_file THEN OutputFile ELSE <<"mp3_output", 0>>

\* agent = AgentF5TTS(..., delay=6)
ExampleDelay == 6

\* ------------------------------------------------------------- lines

BlankLine == [blank |-> TRUE, tag |-> NoTag]
PlainLine == [blank |-> FALSE, tag |-> NoTag]
HappyLine == [blank |-> FALSE, tag |-> <<"speaker1", "happy">>]
LineKinds == {BlankLine, PlainLine, HappyLine}

Keys == {<<"speaker1", "neutral">>, <<"speaker1", "happy">>}

StripLines_KeepBlank(raw) == raw

\* lines = [line.strip() for line in file if line.strip()]
StripLines(raw) == SelectSeqOf(raw, {l \in LineKinds : ~l.blank})

\* _determine_speaker_emotion: the defaults unless the tag matches
_determine_speaker_emotion(text) ==
    IF text.tag = NoTag THEN <<"speaker1", "neutral">> ELSE text.tag

\* speaker_emotion_refs.get((speaker, emotion))
RefsGet(refs, key) == IF key \in DOMAIN refs THEN refs[key] ELSE None

RefMissing_NoExistsCheck(ref, files) == ref = None

\* not ref_audio or not os.path.exists(ref_audio)
RefMissing(ref, files) == ref = None \/ ref \notin files

\* ------------------------------------------------------- exceptions

\* what self.model.infer can do: return, or raise some Exception
EngineOutcomes == {"ok", "EngineError"}

\* what subprocess.run(..., check=True) can do: return, or raise
FfmpegOutcomes == {"ok", "CalledProcessError"}

SynthesisHandlerCatches_Nothing(exc) == FALSE

\* "except Exception as e" around the engine call catches every engine error
SynthesisHandlerCatches(exc) == exc \in {"EngineError"}

\* "except Exception as e" of _combine_audio_files
CombineHandlerCatches(exc) == exc \in {"CalledProcessError", "OSError"}

\* ------------------------------------------------- conversation idle

ConvIdle ==
    /\ variant = "none"
    /\ dialog_data = <<>>
    /\ dataset = <<>>
    /\ speaker_ids = <<>>
    /\ speaker_voices = <<>>
    /\ speaker_texts = <<>>
    /\ row = 0
    /\ generated_count = 0
    /\ temp_output_path = None
    /\ cdisk = {}
    /\ cpc = "idle"
    /\ error = "none"
    /\ turns = <<>>

TagIdle ==
    /\ tag_line = <<>>
    /\ tag_result = <<>>

RaceIdle ==
    /\ rpc = <<>>
    /\ rsegs = <<>>
    /\ rlist = <<>>
    /\ rdisk = {}
    /\ rcalls = <<>>

AuxIdle == TagIdle /\ RaceIdle

TTSIdle ==
    /\ method = "none"
    /\ text_file_exists = FALSE
    /\ file_lines = <<>>
    /\ output_audio_file = [dir |-> <<>>, base |-> <<>>]
    /\ output_has_dir = FALSE
    /\ delay = 0
    /\ speaker_emotion_refs = <<>>
    /\ ref_audio = None
    /\ convert_to_mp3 = FALSE
    /\ disk = {}
    /\ file_list = <<>>
    /\ lines = <<>>
    /\ i = 0
    /\ temp_files = <<>>
    /\ pc = "idle"
    /\ infer_calls = <<>>
    /\ ffmpeg_calls = <<>>
    /\ log = {}

\* ------------------------------------------------- AgentF5TTS: Init

Methods == {"generate_emotion_speech", "generate_speech"}

Init ==
    /\ method \in Methods
    /\ text_file_exists \in BOOLEAN
    /\ file_lines \in SeqsUpTo(LineKinds, MaxLines)
    /\ output_audio_file \in OutputPaths
    /\ output_has_dir = (Dirname(output_audio_file) # <<>>)
    /\ delay \in {0, ExampleDelay}
    /\ convert_to_mp3 \in BOOLEAN
    /\ \/ /\ method = "generate_emotion_speech"
          /\ speaker_emotion_refs \in
                 UNION {[ks -> {RefA}] : ks \in SUBSET Keys}
          /\ ref_audio = None
       \/ /\ method = "generate_speech"
          /\ speaker_emotion_refs = <<>>
          /\ ref_audio \in {None, RefA}
    /\ disk \in {(IF text_file_exists THEN {TextFile} ELSE {}) \cup refs :
                     refs \in SUBSET {RefA}}
    /\ file_list = <<>>
    /\ lines = <<>>
    /\ i = 0
    /\ temp_files = <<>>
    /\ pc = "start"
    /\ infer_calls = <<>>
    /\ ffmpeg_calls = <<>>
    /\ log = {}
    /\ ConvIdle
    /\ AuxIdle

inputVars == <<method, text_file_exists, file_lines, output_audio_file,
               output_has_dir, delay, speaker_emotion_refs, ref_audio, convert_to_mp3>>

\* ------------------------------------- generate_*_speech: the prologue

\* except FileNotFoundError: logging.error(...); return
TextFileNotFound ==
    /\ pc = "start"
    /\ ~text_file_exists
    /\ log' = log \cup {<<"Text file not found", 0>>}
    /\ pc' = "done"
    /\ UNCHANGED <<inputVars, disk, file_list, lines, i, temp_files,
                   infer_calls, ffmpeg_calls, convVars, auxVars>>

\* if not lines: logging.error(...); return
InputEmpty ==
    /\ pc = "start"
    /\ text_file_exists
    /\ StripLines(file_lines) = <<>>
    /\ lines' = StripLines(file_lines)
    /\ log' = log \cup {<<"Input text file is empty.", 0>>}
    /\ pc' = "done"
    /\ UNCHANGED <<inputVars, disk, file_list, i, temp_files,
                   infer_calls, ffmpeg_calls, convVars, auxVars>>

\* temp_files = []; os.makedirs(os.path.dirname(output_audio_file), exist_ok=True)
\* os.makedirs("") raises FileNotFoundError, which nothing catches
StartLoop ==
    /\ pc = "start"
    /\ text_file_exists
    /\ StripLines(file_lines) # <<>>
    /\ lines' = StripLines(file_lines)
    /\ temp_files' = <<>>
    /\ i' = 0
    /\ IF output_has_dir
       THEN /\ disk' = disk \cup {OutputDir}
            /\ pc' = "loop"
       ELSE /\ disk' = disk
            /\ pc' = "raised"
    /\ UNCHANGED <<inputVars, file_list, infer_calls, ffmpeg_calls, log,
                   convVars, auxVars>>

\* ---------------------------------------- generate_*_speech: the loop

\* the reference of the line at index n (0-based), as each method resolves it
ResolveRef(n) ==
    IF method = "generate_emotion_speech"
    THEN RefsGet(speaker_emotion_refs, _determine_speaker_emotion(lines[n + 1]))
    ELSE ref_audio

NextIndex_SkipOne(n) == n + 2

\* for i, line in enumerate(lines): the index of the next iteration
NextIndex(n) == n + 1

\* time.sleep(self.delay): only generate_emotion_speech sleeps, in its try
\* block after infer has returned; the pause that follows an engine call
PauseAfter(m, ok, d) == IF m = "generate_emotion_speech" /\ ok THEN d ELSE 0

\* if not ref_audio or not os.path.exists(ref_audio): logging.error; continue
SkipLine ==
    /\ pc = "loop"
    /\ i < Len(lines)
    /\ RefMissing(ResolveRef(i), disk)
    /\ log' = log \cup {<<"Reference audio not found", i + 1>>}
    /\ i' = NextIndex(i)
    /\ UNCHANGED <<inputVars, disk, file_list, lines, temp_files, pc,
                   infer_calls, ffmpeg_calls, convVars, auxVars>>

\* try: self.model.infer(...); temp_files.append(temp_file); time.sleep(self.delay)
\* except Exception as e: logging.error(...)
SynthesizeLine ==
    /\ pc = "loop"
    /\ i < Len(lines)
    /\ ~RefMissing(ResolveRef(i), disk)
    /\ \E outcome \in EngineOutcomes :
         /\ infer_calls' = Append(infer_calls,
                [line |-> i, ref_file |-> ResolveRef(i),
                 file_wave |-> TempFile(i), ok |-> (outcome = "ok"),
                 pause |-> PauseAfter(method, outcome = "ok", delay)])
         /\ IF outcome = "ok"
            THEN /\ disk' = disk \cup {TempFile(i)}
                 /\ temp_files' = Append(temp_files, TempFile(i))
                 /\ log' = log
                 /\ i' = NextIndex(i)
                 /\ pc' = pc
            ELSE IF SynthesisHandlerCatches(outcome)
            THEN /\ log' = log \cup {<<"Error generating speech", i + 1>>}
                 /\ i' = NextIndex(i)
                 /\ UNCHANGED <<disk, temp_files, pc>>
            ELSE /\ pc' = "raised"
                 /\ UNCHANGED <<disk, temp_files, log, i>>
    /\ UNCHANGED <<inputVars, file_list, lines, ffmpeg_calls, convVars, auxVars>>

\* ------------------------------------------------ _combine_audio_files

NoTempFiles_Unchecked(files) == FALSE

\* if not temp_files:
NoTempFiles(files) == files = <<>>

ListFileContent_Reversed(files) ==
    [k \in 1..Len(files) |-> files[Len(files) + 1 - k]]

\* for temp in temp_files: f.write(f"file '{temp}'\n")
ListFileContent(files) == files

\* if not temp_files: logging.error("No audio files to combine."); return
CombineNoFiles ==
    /\ pc = "loop"
    /\ i = Len(lines)
    /\ NoTempFiles(temp_files)
    /\ log' = log \cup {<<"No audio files to combine.", 0>>}
    /\ pc' = "done"
    /\ UNCHANGED <<inputVars, disk, file_list, lines, i, temp_files,
                   infer_calls, ffmpeg_calls, convVars, auxVars>>

\* with open(list_file, "w") as f: for temp in temp_files: f.write(...)
WriteListFile ==
    /\ pc = "loop"
    /\ i = Len(lines)
    /\ ~NoTempFiles(temp_files)
    /\ disk' = disk \cup {ListFile}
    /\ file_list' = ListFileContent(temp_files)
    /\ pc' = "concat"
    /\ UNCHANGED <<inputVars, lines, i, temp_files, infer_calls,
                   ffmpeg_calls, log, convVars, auxVars>>

\* subprocess.run(["ffmpeg", ..., "concat", ..., "-i", list_file, ...], check=True)
RunConcat ==
    /\ pc = "concat"
    /\ \E outcome \in FfmpegOutcomes :
         /\ ffmpeg_calls' = Append(ffmpeg_calls,
                [tool |-> "concat", input |-> file_list,
                 output |-> OutputFile, ok |-> (outcome = "ok")])
         /\ IF outcome = "ok"
            THEN /\ disk' = disk \cup {OutputFile}
                 /\ pc' = IF convert_to_mp3 THEN "transcode" ELSE "remove_temps"
                 /\ log' = log
            ELSE IF CombineHandlerCatches(outcome)
            THEN /\ log' = log \cup {<<"Error combining audio files", 0>>}
                 /\ pc' = "done"
                 /\ disk' = disk
            ELSE /\ pc' = "raised"
                 /\ UNCHANGED <<disk, log>>
    /\ UNCHANGED <<inputVars, file_list, lines, i, temp_files, infer_calls,
                   convVars, auxVars>>

\* ffmpeg exits with an error when its output file is its input file
TranscodeOutcomes ==
    IF Mp3Output = OutputFile THEN {"CalledProcessError"} ELSE FfmpegOutcomes

\* if convert_to_mp3: subprocess.run(["ffmpeg", "-y", "-i", output_audio_file, ...])
RunTranscode ==
    /\ pc = "transcode"
    /\ \E outcome \in TranscodeOutcomes :
         /\ ffmpeg_calls' = Append(ffmpeg_calls,
                [tool |-> "transcode", input |-> <<OutputFile>>,
                 output |-> Mp3Output, ok |-> (outcome = "ok")])
         /\ IF outcome = "ok"
            THEN /\ disk' = disk \cup {Mp3Output}
                 /\ pc' = "remove_temps"
                 /\ log' = log
            ELSE IF CombineHandlerCatches(outcome)
            THEN /\ log' = log \cup {<<"Error combining audio files", 0>>}
                 /\ pc' = "done"
                 /\ disk' = disk
            ELSE /\ pc' = "raised"
                 /\ UNCHANGED <<disk, log>>
    /\ UNCHANGED <<inputVars, file_list, lines, i, temp_files, infer_calls,
                   convVars, auxVars>>

RemovedByCleanup_OutputToo(files) == Range(files) \cup {OutputFile}

\* for temp in temp_files: os.remove(temp): the files the loop removes
RemovedByCleanup(files) == Range(files)

\* for temp in temp_files: os.remove(temp)
RemoveTemps ==
    /\ pc = "remove_temps"
    /\ IF Range(temp_files) \subseteq disk
       THEN /\ disk' = disk \ RemovedByCleanup(temp_files)
            /\ pc' = "remove_list"
            /\ log' = log
       ELSE IF CombineHandlerCatches("OSError")
       THEN /\ log' = log \cup {<<"Error combining audio files", 0>>}
            /\ pc' = "done"
            /\ disk' = disk \ Range(temp_files)
       ELSE /\ pc' = "raised"
            /\ UNCHANGED <<disk, log>>
    /\ UNCHANGED <<inputVars, file_list, lines, i, temp_files, infer_calls,
                   ffmpeg_calls, convVars, auxVars>>

\* os.remove(list_file)
RemoveListFile ==
    /\ pc = "remove_list"
    /\ disk' = disk \ {ListFile}
    /\ pc' = "done"
    /\ UNCHANGED <<inputVars, file_list, lines, i, temp_files, infer_calls,
                   ffmpeg_calls, log, convVars, auxVars>>

Next ==
    \/ TextFileNotFound
    \/ InputEmpty
    \/ StartLoop
    \/ SkipLine
    \/ SynthesizeLine
    \/ CombineNoFiles
    \/ WriteListFile
    \/ RunConcat
    \/ RunTranscode
    \/ RemoveTemps
    \/ RemoveListFile

Spec == Init /\ [][Next]_vars

\* the same run under the scheduling of a single-threaded program: it keeps
\* executing until it returns or raises
LiveSpec == Init /\ [][Next]_vars /\ WF_vars(Next)

\* ===================================================================
\* Properties of the AgentF5TTS run
\* ===================================================================

RECURSIVE AscSeq(_)
\* the elements of a finite set of integers, ascending
AscSeq(S) ==
    IF S = {} THEN <<>>
    ELSE LET m == CHOOSE x \in S : \A y \in S : x <= y
         IN <<m>> \o AscSeq(S \ {m})

SucceededLines == {infer_calls[k].line : k \in {j \in DOMAIN infer_calls : infer_calls[j].ok}}
FailedLines == {infer_calls[k].line : k \in {j \in DOMAIN infer_calls : ~infer_calls[j].ok}}
CalledLines == {infer_calls[k].line : k \in DOMAIN infer_calls}
SkippedLines == {n \in 0..(Len(lines) - 1) : <<"Reference audio not found", n + 1>> \in log}

ConcatCalls == {k \in DOMAIN ffmpeg_calls : ffmpeg_calls[k].tool = "concat"}

\* the manifest a run with these successes must hand over
ExpectedManifest ==
    LET asc == AscSeq(SucceededLines)
    IN [k \in 1..Len(asc) |-> TempFile(asc[k])]

\* _combine_audio_files has been entered
CombineEntered ==
    \/ <<"No audio files to combine.", 0>> \in log
    \/ pc \in {"concat", "transcode", "remove_temps", "remove_list"}
    \/ ffmpeg_calls # <<>>

\* the reference of line n, from the inputs of the run
LineKey(n) == IF lines[n + 1].tag = NoTag THEN <<"speaker1", "neutral">> ELSE lines[n + 1].tag
LineHasUsableRef(n) ==
    IF method = "generate_emotion_speech"
    THEN /\ LineKey(n) \in DOMAIN speaker_emotion_refs
         /\ speaker_emotion_refs[LineKey(n)] \in disk
    ELSE ref_audio # None /\ ref_audio \in disk

\* C1: the manifest handed to the concatenation tool lists exactly the temp
\* files of the utterances whose engine call succeeded, each once, in
\* strictly ascending line index, whatever subset of engine calls failed.
C1_ManifestExact ==
    /\ \A k \in ConcatCalls : ffmpeg_calls[k].input = ExpectedManifest
    /\ pc = "concat" => (ListFile \in disk /\ file_list = ExpectedManifest)

\* a concatenation ran on a manifest of two segments with a failed utterance
\* between them
C1_Witness ==
    /\ ConcatCalls # {}
    /\ \E a, b, c \in 0..(Len(lines) - 1) :
         /\ a < b /\ b < c
         /\ a \in SucceededLines /\ b \in FailedLines /\ c \in SucceededLines

\* C2: an engine failure is logged and not propagated: the loop goes on to
\* every later line and the run reaches the stitching step.
C2_FailureRecorded ==
    /\ pc = "raised" => infer_calls = <<>>
    /\ \A n \in FailedLines :
         /\ <<"Error generating speech", n + 1>> \in log
         /\ i > n
    /\ (pc \notin {"start", "loop", "raised"} \/ CombineEntered) =>
         \A n \in 0..(Len(lines) - 1) :
            /\ n \in CalledLines \cup SkippedLines
            /\ LineHasUsableRef(n) => n \in CalledLines

C2_FailureIsolated ==
    /\ []C2_FailureRecorded
    /\ (FailedLines # {}) ~> (i = Len(lines) /\ CombineEntered)

\* a failed engine call was followed by the engine call of a later line and
\* the run went through stitching
C2_Witness ==
    /\ pc = "done"
    /\ CombineEntered
    /\ \E a, b \in CalledLines : a < b /\ a \in FailedLines

\* C3: after _combine_audio_files returns from a call with a non-empty
\* segment list, no per-utterance temp file and no manifest remain on disk.
C3_CleanupAlways ==
    (pc = "done" /\ temp_files # <<>>) =>
        (Range(temp_files) \cap disk = {} /\ ListFile \notin disk)

\* C4: a line whose reference is absent from the mapping or does not exist
\* never reaches the engine and records no temp file, the lines after it are
\* still processed, and the engine only gets references that exist.
C4_MissingRefSkipped ==
    /\ \A k \in DOMAIN infer_calls :
         /\ infer_calls[k].ref_file # None
         /\ infer_calls[k].ref_file \in disk
         /\ LineHasUsableRef(infer_calls[k].line)
    /\ \A n \in 0..(i - 1) :
         ~LineHasUsableRef(n) =>
            /\ n \notin CalledLines
            /\ TempFile(n) \notin Range(temp_files)
            /\ TempFile(n) \notin disk
            /\ n \in SkippedLines
    /\ pc = "raised" => i = 0
    /\ pc \notin {"start", "loop", "raised"} => i = Len(lines)

\* in explicit mapping mode a line without a reference was skipped and a later
\* line was synthesized
C4_Witness ==
    /\ method = "generate_emotion_speech"
    /\ pc = "done"
    /\ \E a \in SkippedLines : \E b \in SucceededLines : a < b

\* every line of a non-empty input has been handled and none succeeded
AllFailed ==
    /\ lines # <<>>
    /\ pc \notin {"start", "raised"}
    /\ i = Len(lines)
    /\ SucceededLines = {}

\* C5: when every utterance of a non-empty input fails, the run ends in the
\* reported NoSegments failure: ffmpeg is never run, no manifest is written
\* and no output file is produced.
C5_NoSegments ==
    AllFailed =>
        /\ ffmpeg_calls = <<>>
        /\ ListFile \notin disk
        /\ OutputFile \notin disk
        /\ Mp3Output \notin disk
        /\ pc \in {"loop", "done"}
        /\ pc = "done" => <<"No audio files to combine.", 0>> \in log

\* a run whose engine calls all failed has ended
C5_Witness ==
    /\ AllFailed
    /\ pc = "done"
    /\ Len(lines) >= 2
    /\ FailedLines # {}

\* the input file is missing or holds no non-blank line
NoInput == ~text_file_exists \/ \A k \in DOMAIN file_lines : file_lines[k].blank

\* C6: with a missing input file, or one with no non-blank line, the run
\* aborts before any synthesis: no engine call, the stitcher is not entered,
\* and no directory, temp file, manifest or output file is created.
C6_InputError ==
    NoInput =>
        /\ infer_calls = <<>>
        /\ ffmpeg_calls = <<>>
        /\ ~CombineEntered
        /\ disk \subseteq {TextFile, RefA}
        /\ pc \in {"start", "done"}
        /\ pc = "done" =>
             \/ <<"Text file not found", 0>> \in log
             \/ <<"Input text file is empty.", 0>> \in log

\* a run over an existing file of blank lines only has ended
C6_Witness ==
    /\ pc = "done"
    /\ text_file_exists
    /\ file_lines # <<>>
    /\ NoInput

\* ===================================================================
\* generate_conversation_audio (conversational_agent.py and
\* create_conversation.py)
\* ===================================================================

\* speakers are named by their rank in sorted order
Speakers == 1..MaxSpeakers

\* the reference corpus: record k holds audio k and transcript k
Corpus(n) == [k \in 1..n |-> [audio |-> <<"audio", k>>, text |-> <<"text", k>>]]

Variants == {"conversational_agent", "create_conversation"}

\* the orders in which list(set(speakers)) can enumerate a set: string
\* hashing is salted per process, so any order can come out
SetOrders(S) ==
    {f \in [1..Cardinality(S) -> S] : \A a, b \in 1..Cardinality(S) : a # b => f[a] # f[b]}

\* available_references / available_texts
AvailableReferences(ds) == [k \in DOMAIN ds |-> ds[k].audio]
AvailableTexts(ds) == [k \in DOMAIN ds |-> ds[k].text]

\* for i, speaker in enumerate(speaker_ids): the 0-based index of a speaker
IndexOf(ids, s) == (CHOOSE k \in DOMAIN ids : ids[k] = s) - 1

\* if available_references: speaker_voices[speaker] = available_references[i % len(...)]
SpeakerVoices(ids, ds) ==
    LET refs == AvailableReferences(ds)
    IN [s \in (IF refs = <<>> THEN {} ELSE Range(ids)) |->
            refs[(IndexOf(ids, s) % Len(refs)) + 1]]

SpeakerTexts_Shifted(ids, ds) ==
    LET refs == AvailableReferences(ds)
        texts == AvailableTexts(ds)
    IN [s \in (IF refs = <<>> THEN {} ELSE Range(ids)) |->
            texts[((IndexOf(ids, s) + 1) % Len(texts)) + 1]]

\* speaker_texts[speaker] = available_texts[i % len(available_texts)]
SpeakerTexts(ids, ds) ==
    LET refs == AvailableReferences(ds)
        texts == AvailableTexts(ds)
    IN [s \in (IF refs = <<>> THEN {} ELSE Range(ids)) |->
            texts[(IndexOf(ids, s) % Len(texts)) + 1]]

max_audios == 1000

\* the parameters generate_speech accepts, and the keywords the call passes
GenerateSpeechParams == {"text_file", "output_audio_file", "ref_audio", "convert_to_mp3"}
GenerateSpeechCallKeywords ==
    {"text_file", "output_audio_file", "ref_audio", "ref_text", "convert_to_mp3"}

\* a keyword the callee does not accept raises TypeError at the call
CallRaisesTypeError == ~(GenerateSpeechCallKeywords \subseteq GenerateSpeechParams)

\* where the try block of create_conversation.py can fail
CreateOutcomes ==
    {"ok", "preprocess_ref_audio_text", "infer_process",
     "remove_silence_for_generated_wav", "sf.write"}

\* the failures that happen before temp_output is created
BeforeTempOutput == {"preprocess_ref_audio_text", "infer_process"}

ConvOutputDir == <<"output_dir", 0>>
TempRef(r) == <<"temp_ref", r>>
TempText(r) == <<"temp_text", r>>
TempOutput(r) == <<"temp_output", r>>
OutputPath(r) == <<"output_path", r>>

InitConv ==
    /\ variant \in Variants
    /\ dialog_data \in SeqsUpTo(Speakers, MaxTurns)
    /\ dataset \in {Corpus(n) : n \in 0..MaxCorpus}
    /\ speaker_ids = <<>>
    /\ speaker_voices = <<>>
    /\ speaker_texts = <<>>
    /\ row = 0
    /\ generated_count = 0
    /\ temp_output_path = None
    /\ cdisk = {}
    /\ cpc = "start"
    /\ error = "none"
    /\ turns = <<>>
    /\ TTSIdle
    /\ AuxIdle

convInputs == <<variant, dialog_data, dataset>>

\* os.makedirs(output_dir); speakers = ...unique(); load_dataset;
\* speaker_voices, speaker_texts = assign_speaker_voices(speakers, dataset)
AssignSpeakerVoices ==
    /\ cpc = "start"
    /\ \E ids \in SetOrders(Range(dialog_data)) :
         /\ speaker_ids' = ids
         /\ speaker_voices' = SpeakerVoices(ids, dataset)
         /\ speaker_texts' = SpeakerTexts(ids, dataset)
    /\ cdisk' = cdisk \cup {ConvOutputDir}
    /\ generated_count' = 0
    /\ row' = 0
    /\ cpc' = "loop"
    /\ UNCHANGED <<convInputs, temp_output_path, error, turns, ttsVars, auxVars>>

\* conversational_agent.py, finally: unlink temp_ref_path and temp_text_path
FinallyAgent(files, r) == files \ {TempRef(r), TempText(r)}

FinallyCreate_RefOnly(files, r, bound) == files \ {TempRef(r)}

\* create_conversation.py, finally: unlink temp_ref_path, then the file that
\* temp_output_path is bound to
FinallyCreate(files, r, bound) == (files \ {TempRef(r)}) \ {bound}

\* ref_text = speaker_texts[speaker] with a speaker that has no entry
TurnKeyError ==
    /\ cpc = "loop"
    /\ row < Len(dialog_data)
    /\ generated_count <= max_audios
    /\ dialog_data[row + 1] \notin DOMAIN speaker_texts
    /\ turns' = Append(turns,
           [row |-> row, speaker |-> dialog_data[row + 1], ref_audio |-> None,
            ref_text |-> None, outcome |-> "KeyError", engine |-> FALSE,
            cleaned |-> None])
    /\ error' = "KeyError"
    /\ cpc' = "raised"
    /\ UNCHANGED <<convInputs, speaker_ids, speaker_voices, speaker_texts, row,
                   generated_count, temp_output_path, cdisk, ttsVars, auxVars>>

\* conversational_agent.py: one turn, from the temp files to the finally
TurnAgent ==
    /\ cpc = "loop"
    /\ row < Len(dialog_data)
    /\ generated_count <= max_audios
    /\ variant = "conversational_agent"
    /\ dialog_data[row + 1] \in DOMAIN speaker_texts
    /\ LET speaker == dialog_data[row + 1]
           created == cdisk \cup {TempRef(row + 1), TempText(row + 1)}
       IN /\ cdisk' = FinallyAgent(created, row + 1)
          /\ turns' = Append(turns,
                 [row |-> row, speaker |-> speaker,
                  ref_audio |-> speaker_voices[speaker],
                  ref_text |-> speaker_texts[speaker],
                  outcome |-> IF CallRaisesTypeError THEN "TypeError" ELSE "ok",
                  engine |-> ~CallRaisesTypeError,
                  cleaned |-> None])
          /\ IF CallRaisesTypeError
             THEN /\ error' = "TypeError"
                  /\ cpc' = "raised"
                  /\ UNCHANGED <<row, generated_count>>
             ELSE /\ generated_count' = generated_count + 1
                  /\ row' = row + 1
                  /\ UNCHANGED <<error, cpc>>
    /\ UNCHANGED <<convInputs, speaker_ids, speaker_voices, speaker_texts,
                   temp_output_path, ttsVars, auxVars>>

\* create_conversation.py: one turn, from the temp file to the finally
TurnCreate ==
    /\ cpc = "loop"
    /\ row < Len(dialog_data)
    /\ generated_count <= max_audios
    /\ variant = "create_conversation"
    /\ dialog_data[row + 1] \in DOMAIN speaker_texts
    /\ \E outcome \in CreateOutcomes :
         LET speaker == dialog_data[row + 1]
             \* with tempfile.NamedTemporaryFile(...) as temp_output
             bound == IF outcome \in BeforeTempOutput
                      THEN temp_output_path ELSE TempOutput(row + 1)
             written == cdisk \cup {TempRef(row + 1)}
                          \cup (IF outcome \in BeforeTempOutput THEN {} ELSE {TempOutput(row + 1)})
                          \cup (IF outcome = "ok" THEN {OutputPath(row + 1)} ELSE {})
             \* finally: os.path.exists(temp_output_path) on an unbound local
             leaving == IF bound = None THEN "UnboundLocalError"
                        ELSE IF outcome = "ok" THEN "none" ELSE outcome
         IN /\ temp_output_path' = bound
            /\ cdisk' = FinallyCreate(written, row + 1, bound)
            /\ turns' = Append(turns,
                   [row |-> row, speaker |-> speaker,
                    ref_audio |-> speaker_voices[speaker],
                    ref_text |-> speaker_texts[speaker],
                    outcome |-> outcome,
                    engine |-> (outcome # "preprocess_ref_audio_text"),
                    cleaned |-> bound])
            /\ IF leaving = "none"
               THEN /\ row' = row + 1
                    /\ UNCHANGED <<error, cpc>>
               ELSE /\ error' = leaving
                    /\ cpc' = "raised"
                    /\ row' = row
    /\ UNCHANGED <<convInputs, speaker_ids, speaker_voices, speaker_texts,
                   generated_count, ttsVars, auxVars>>

\* if generated_count <= max_audios: is false: the row is passed over
TurnBeyondCap ==
    /\ cpc = "loop"
    /\ row < Len(dialog_data)
    /\ ~(generated_count <= max_audios)
    /\ row' = row + 1
    /\ UNCHANGED <<convInputs, speaker_ids, speaker_voices, speaker_texts,
                   generated_count, temp_output_path, cdisk, cpc, error, turns,
                   ttsVars, auxVars>>

\* for idx, row in dialog_data.iterrows(): one row
Turn ==
    IF generated_count <= max_audios
    THEN TurnKeyError \/ TurnAgent \/ TurnCreate
    ELSE TurnBeyondCap

\* the loop is exhausted and generate_conversation_audio returns
ConvReturn ==
    /\ cpc = "loop"
    /\ row = Len(dialog_data)
    /\ cpc' = "done"
    /\ UNCHANGED <<convInputs, speaker_ids, speaker_voices, speaker_texts, row,
                   generated_count, temp_output_path, cdisk, error, turns,
                   ttsVars, auxVars>>

NextConv ==
    \/ AssignSpeakerVoices
    \/ Turn
    \/ ConvReturn

SpecConv == InitConv /\ [][NextConv]_vars

\* ===================================================================
\* Properties of generate_conversation_audio
\* ===================================================================

\* the outcomes of a turn that are failures of its synthesis
TurnSynthesisFailures == (CreateOutcomes \ {"ok"}) \cup {"TypeError"}

FailedTurns == {k \in DOMAIN turns : turns[k].outcome \in TurnSynthesisFailures}

\* C7: a failure while synthesizing one dialog turn stays in that turn: the
\* run is not left by an exception and every later turn is still attempted.
C7_TurnFailureIsolated ==
    FailedTurns # {} =>
        /\ cpc # "raised"
        /\ cpc = "done" => Len(turns) = Len(dialog_data)

\* C8: with an empty reference corpus every dialog turn is skipped without an
\* engine call and the loop runs through all turns; the run is not aborted.
C8_EmptyCorpusSkips ==
    (dataset = <<>> /\ dialog_data # <<>>) =>
        /\ cpc # "raised"
        /\ \A k \in DOMAIN turns : ~turns[k].engine
        /\ cpc = "done" => row = Len(dialog_data)

\* the rank of a speaker among the distinct speakers, 0-based, sorted order
SortedOrdinal(s) == Cardinality({t \in Range(dialog_data) : t < s})

\* C9: the k-th distinct speaker in sorted order is assigned
\* corpus[k mod len(corpus)], whatever order the speakers come in.
C9_SortedRoundRobin ==
    (cpc # "start" /\ dataset # <<>>) =>
        \A s \in Range(dialog_data) :
            /\ s \in DOMAIN speaker_voices
            /\ speaker_voices[s] = dataset[(SortedOrdinal(s) % Len(dataset)) + 1].audio
            /\ speaker_texts[s] = dataset[(SortedOrdinal(s) % Len(dataset)) + 1].text

\* the turns that got a reference
ResolvedTurns == {k \in DOMAIN turns : turns[k].outcome # "KeyError"}

C10_Consistent ==
    /\ \A a, b \in ResolvedTurns :
         turns[a].speaker = turns[b].speaker =>
            /\ turns[a].ref_audio = turns[b].ref_audio
            /\ turns[a].ref_text = turns[b].ref_text
    /\ \A a \in ResolvedTurns :
         \E k \in DOMAIN dataset :
            /\ dataset[k].audio = turns[a].ref_audio
            /\ dataset[k].text = turns[a].ref_text
    /\ \A s \in DOMAIN speaker_voices :
         /\ s \in DOMAIN speaker_texts
         /\ \E k \in DOMAIN dataset :
              /\ dataset[k].audio = speaker_voices[s]
              /\ dataset[k].text = speaker_texts[s]
    /\ cpc = "start" => turns = <<>>

\* C10: the speaker-to-reference assignment is made once, before the first
\* turn, and never changes: two turns of one speaker use the same reference
\* audio and transcript, and both come from one corpus record.
C10_AssignedOnce ==
    /\ []C10_Consistent
    /\ [][cpc # "start" =>
            UNCHANGED <<speaker_ids, speaker_voices, speaker_texts>>]_vars

\* two turns of the same speaker were synthesized, with a second speaker and
\* a corpus of two records in the run
C10_Witness ==
    /\ Len(dataset) >= 2
    /\ Cardinality(Range(dialog_data)) >= 2
    /\ \E a, b \in ResolvedTurns :
         /\ a < b
         /\ turns[a].speaker = turns[b].speaker
         /\ turns[a].outcome = "ok"
         /\ turns[b].outcome = "ok"

\* ===================================================================
\* Further properties of the AgentF5TTS run
\* ===================================================================

\* C11: with delay > 0, every engine call that is followed by another one is
\* followed by a pause of the configured delay, whether it succeeded or not.
C11_PauseBetweenCalls ==
    delay > 0 =>
        \A k \in 1..(Len(infer_calls) - 1) : infer_calls[k].pause = delay

TranscodeCalls == {k \in DOMAIN ffmpeg_calls : ffmpeg_calls[k].tool = "transcode"}

\* C12: the transcode writes to a sibling of output_audio_file that is not
\* output_audio_file, and the concatenated file is still there afterwards,
\* also for a path without ".wav" or with ".wav" more than once.
C12_TranscodeSibling ==
    \A k \in TranscodeCalls :
        /\ ffmpeg_calls[k].output # OutputFile
        /\ Mp3OutputPath # output_audio_file
        /\ Dirname(Mp3OutputPath) = Dirname(output_audio_file)
        /\ OutputFile \in disk

\* the exit status of the process that made the run: 1 when an exception
\* left it, 0 when the method returned
ExitStatus == IF pc = "raised" THEN 1 ELSE 0

FatalLogged ==
    \/ <<"Text file not found", 0>> \in log
    \/ <<"Input text file is empty.", 0>> \in log
    \/ <<"No audio files to combine.", 0>> \in log

\* C13: the exit status is 0 when the run completes, partial failures
\* included, and non-zero after a fatal InputError or NoSegments failure.
C13_ExitStatus ==
    pc = "done" => (IF FatalLogged THEN ExitStatus # 0 ELSE ExitStatus = 0)

\* the terminal outcomes line n has reached
OutcomesOf(n) ==
    {o \in {"synthesized", "engine_failed", "skipped"} :
        \/ o = "synthesized" /\ n \in SucceededLines
        \/ o = "engine_failed" /\ n \in FailedLines
        \/ o = "skipped" /\ n \in SkippedLines}

\* C15: engine calls happen one at a time in strictly ascending index over
\* the non-blank lines, at most once per line, and every line has exactly one
\* terminal outcome before the next line starts and before stitching begins.
C15_Sequential ==
    /\ \A a, b \in DOMAIN infer_calls :
         a < b => infer_calls[a].line < infer_calls[b].line
    /\ \A k \in DOMAIN lines : ~lines[k].blank
    /\ pc \notin {"start"} /\ text_file_exists =>
         Len(lines) = Cardinality({k \in DOMAIN file_lines : ~file_lines[k].blank})
    /\ \A n \in 0..(Len(lines) - 1) :
         Cardinality(OutcomesOf(n)) = (IF n < i THEN 1 ELSE 0)
    /\ Len(infer_calls) <= i
    /\ i <= Len(lines)
    /\ CombineEntered => i = Len(lines)

\* a run over a file with a blank line made one failed and one successful
\* engine call and went on to stitching
C15_Witness ==
    /\ pc = "done"
    /\ CombineEntered
    /\ Len(lines) < Len(file_lines)
    /\ SucceededLines # {}
    /\ FailedLines # {}

ConcatDone == \E k \in ConcatCalls : ffmpeg_calls[k].ok
TranscodeDone == \E k \in TranscodeCalls : ffmpeg_calls[k].ok
ToolsDone == ConcatDone /\ (convert_to_mp3 => TranscodeDone)

\* C17: temp files and the manifest are deleted only after the concat run
\* (and the transcode run, when requested) has completed; when they succeed,
\* every temp file and the manifest are deleted and the output file is kept.
C17_CleanupAfterTools ==
    /\ (\E t \in Range(temp_files) : t \notin disk) => ToolsDone
    /\ (ffmpeg_calls # <<>> /\ ListFile \notin disk) =>
          (ToolsDone /\ Range(temp_files) \cap disk = {})
    /\ (pc = "done" /\ temp_files # <<>> /\ ToolsDone) =>
          /\ Range(temp_files) \cap disk = {}
          /\ ListFile \notin disk
          /\ OutputFile \in disk

\* a run that transcoded two segments has cleaned up
C17_Witness ==
    /\ pc = "done"
    /\ Len(temp_files) >= 2
    /\ convert_to_mp3
    /\ TranscodeDone
    /\ ListFile \notin disk

\* ===================================================================
\* Further properties of generate_conversation_audio
\* ===================================================================

\* the transient files of all turns
TransientFiles ==
    UNION {{TempRef(r), TempText(r), TempOutput(r)} : r \in 1..(Len(dialog_data) + 1)}

\* C16: once the processing of a turn has ended, normally or by an exception
\* of the engine call, none of the transient files made for it exists.
C16_TransientsReleased ==
    /\ cdisk \cap TransientFiles = {}
    /\ cpc = "start" => turns = <<>>

\* a turn that failed after its temp output file was created has ended
C16_Witness ==
    /\ cpc = "raised"
    /\ variant = "create_conversation"
    /\ Len(turns) >= 2
    /\ turns[Len(turns)].outcome = "remove_silence_for_generated_wav"
    /\ turns[Len(turns)].cleaned = TempOutput(Len(turns))

\* C20: in create_conversation.py the cleanup of a turn does not fail by
\* itself and looks only at paths made in that turn: the error that leaves a
\* turn is the original failure.
C20_CleanupOwnPaths ==
    variant = "create_conversation" =>
        /\ error # "UnboundLocalError"
        /\ (cpc = "raised" /\ turns # <<>>) => error = turns[Len(turns)].outcome
        /\ \A k \in ResolvedTurns :
             turns[k].cleaned \in {None, TempOutput(turns[k].row + 1)}

\* ------------------------------------------------ the cap on a long dialog

\* a dialog of one speaker with one row more than max_audios
LongDialog == [k \in 1..(max_audios + 1) |-> 1]

InitCap ==
    /\ variant \in Variants
    /\ dialog_data = LongDialog
    /\ dataset = Corpus(1)
    /\ speaker_ids = <<>>
    /\ speaker_voices = <<>>
    /\ speaker_texts = <<>>
    /\ row = 0
    /\ generated_count = 0
    /\ temp_output_path = None
    /\ cdisk = {}
    /\ cpc = "start"
    /\ error = "none"
    /\ turns = <<>>
    /\ TTSIdle
    /\ AuxIdle

SpecCap == InitCap /\ [][NextConv]_vars

SynthesizedTurns == {k \in DOMAIN turns : turns[k].outcome = "ok"}

\* C18: at most max_audios dialog turns are synthesized in one run, however
\* long the dialog is.
C18_CapBoundsWork == Cardinality(SynthesizedTurns) <= max_audios

\* ===================================================================
\* Tag parsing: _determine_speaker_emotion and the re.sub of
\* generate_emotion_speech, on one line
\* ===================================================================

\* a line is a sequence of tokens: the three literals of the patterns, a
\* blank, and words
LS == "[speaker:"
EM == ", emotion:"
RB == "]"
SP == " "
Words == {"Bob", "sad"}
Tokens == {LS, EM, RB, SP} \cup Words

\* str.strip(): without the blanks at both ends
RECURSIVE LStrip(_)
LStrip(t) == IF t # <<>> /\ Head(t) = SP THEN LStrip(Tail(t)) ELSE t

RECURSIVE RStrip(_)
RStrip(t) ==
    IF t # <<>> /\ t[Len(t)] = SP THEN RStrip(SubSeq(t, 1, Len(t) - 1)) ELSE t

Strip(t) == LStrip(RStrip(t))

\* the positions after k that hold token x
After(t, k, x) == {j \in (k + 1)..Len(t) : t[j] = x}

Min(S) == CHOOSE x \in S : \A y \in S : x <= y

\* re.search(r"\[speaker:(.*?), emotion:(.*?)\]", text): the leftmost
\* "[speaker:" from which the pattern matches; each lazy group ends at the
\* first place from which the rest of the pattern matches
TagStarts(t) ==
    {k \in DOMAIN t :
        /\ t[k] = LS
        /\ After(t, k, EM) # {}
        /\ After(t, Min(After(t, k, EM)), RB) # {}}

\* _determine_speaker_emotion(text)
DetermineSpeakerEmotion(t) ==
    IF TagStarts(t) = {}
    THEN <<<<"speaker1">>, <<"neutral">>>>
    ELSE LET k == Min(TagStarts(t))
             j == Min(After(t, k, EM))
             m == Min(After(t, j, RB))
         IN <<Strip(SubSeq(t, k + 1, j - 1)), Strip(SubSeq(t, j + 1, m - 1))>>

\* re.sub(r'\[speaker:.*?\]\s*', '', line): every "[speaker:" up to the next
\* "]" and the blanks after it are removed, left to right
RECURSIVE SubSpeakerTag(_)
SubSpeakerTag(t) ==
    LET starts == {k \in DOMAIN t : t[k] = LS /\ After(t, k, RB) # {}}
    IN IF starts = {} THEN t
       ELSE LET k == Min(starts)
                m == Min(After(t, k, RB))
            IN SubSeq(t, 1, k - 1) \o SubSpeakerTag(LStrip(SubSeq(t, m + 1, Len(t))))

\* the lines the loop sees: stripped and not empty
StrippedLines ==
    {t \in SeqsUpTo(Tokens, MaxTokens) : t # <<>> /\ Strip(t) = t}

InitParse ==
    /\ tag_line \in StrippedLines
    /\ tag_result = <<>>
    /\ RaceIdle
    /\ TTSIdle
    /\ ConvIdle

\* speaker, emotion = self._determine_speaker_emotion(line)
\* line = re.sub(r'\[speaker:.*?\]\s*', '', line)
ParseLine ==
    /\ tag_result = <<>>
    /\ tag_result' =
          <<[speaker |-> DetermineSpeakerEmotion(tag_line)[1],
             emotion |-> DetermineSpeakerEmotion(tag_line)[2],
             text |-> SubSpeakerTag(tag_line)]>>
    /\ UNCHANGED <<tag_line, rpc, rsegs, rlist, rdisk, rcalls, ttsVars, convVars>>

NextParse == ParseLine

SpecParse == InitParse /\ [][NextParse]_vars

\* the line begins with a tag [speaker:S, emotion:E] with names S and E
HasLeadingTag(t) ==
    /\ Len(t) >= 5
    /\ t[1] = LS /\ t[2] \in Words /\ t[3] = EM /\ t[4] \in Words /\ t[5] = RB

\* C14: a line with a leading tag [speaker:S, emotion:E] yields S, E and the
\* line without the tag and the blanks after it; a line with no tag yields
\* speaker1, neutral and the line unchanged.
C14_TagParsing ==
    tag_result # <<>> =>
        /\ HasLeadingTag(tag_line) =>
              /\ tag_result[1].speaker = <<tag_line[2]>>
              /\ tag_result[1].emotion = <<tag_line[4]>>
              /\ tag_result[1].text = LStrip(SubSeq(tag_line, 6, Len(tag_line)))
        /\ TagStarts(tag_line) = {} =>
              /\ tag_result[1].speaker = <<"speaker1">>
              /\ tag_result[1].emotion = <<"neutral">>
              /\ tag_result[1].text = tag_line

\* ===================================================================
\* Two runs of _combine_audio_files in one working directory
\* (convert_to_mp3=False, temp_files not empty)
\* ===================================================================

Runs == {1, 2}

\* the runs' temp_files and output_audio_file: different paths
RaceSegment(r, k) == <<"segment", r, k>>
RaceOutput(r) == <<"output", r, 0>>
RaceSegments(n) == [r \in Runs |-> [k \in 1..n[r] |-> RaceSegment(r, k)]]

\* list_file = "file_list.txt": rlist is <<>> while the file does not exist
\* and <<content>> while it does
InitRace ==
    /\ \E n \in [Runs -> 1..MaxSegs] :
          /\ rsegs = RaceSegments(n)
          /\ rdisk = UNION {Range(RaceSegments(n)[r]) : r \in Runs}
    /\ rpc = [r \in Runs |-> "start"]
    /\ rlist = <<>>
    /\ rcalls = <<>>
    /\ TagIdle
    /\ TTSIdle
    /\ ConvIdle

\* with open(list_file, "w") as f: for temp in temp_files: f.write(...)
RaceWriteList(r) ==
    /\ rpc[r] = "start"
    /\ rlist' = <<rsegs[r]>>
    /\ rpc' = [rpc EXCEPT ![r] = "written"]
    /\ UNCHANGED <<tag_line, tag_result, rsegs, rdisk, rcalls, ttsVars, convVars>>

\* what ffmpeg can do with the list file it finds: it fails without the
\* file or without a listed segment, and may fail anyway
RaceConcatOutcomes ==
    IF rlist = <<>> \/ ~(Range(rlist[1]) \subseteq rdisk)
    THEN {FALSE} ELSE {TRUE, FALSE}

\* subprocess.run(["ffmpeg", ..., "-i", list_file, ..., output_audio_file],
\* check=True); a failure is caught by except Exception, after which nothing
\* is removed
RaceConcat(r) ==
    /\ rpc[r] = "written"
    /\ \E ok \in RaceConcatOutcomes :
          /\ rcalls' = Append(rcalls, [run |-> r, manifest |-> rlist, ok |-> ok])
          /\ rdisk' = IF ok THEN rdisk \cup {RaceOutput(r)} ELSE rdisk
          /\ rpc' = [rpc EXCEPT ![r] = IF ok THEN "concatenated" ELSE "failed"]
    /\ UNCHANGED <<tag_line, tag_result, rsegs, rlist, ttsVars, convVars>>

\* for temp in temp_files: os.remove(temp)
RaceRemoveTemps(r) ==
    /\ rpc[r] = "concatenated"
    /\ rdisk' = rdisk \ Range(rsegs[r])
    /\ rpc' = [rpc EXCEPT ![r] = "temps_removed"]
    /\ UNCHANGED <<tag_line, tag_result, rsegs, rlist, rcalls, ttsVars, convVars>>

\* os.remove(list_file); FileNotFoundError is caught by except Exception
RaceRemoveList(r) ==
    /\ rpc[r] = "temps_removed"
    /\ rlist' = <<>>
    /\ rpc' = [rpc EXCEPT ![r] = IF rlist = <<>> THEN "failed" ELSE "done"]
    /\ UNCHANGED <<tag_line, tag_result, rsegs, rdisk, rcalls, ttsVars, convVars>>

NextRace ==
    \E r \in Runs :
        \/ RaceWriteList(r)
        \/ RaceConcat(r)
        \/ RaceRemoveTemps(r)
        \/ RaceRemoveList(r)

SpecRace == InitRace /\ [][NextRace]_vars

\* C19: under every interleaving of two runs, each concatenation reads a
\* manifest listing exactly its own run's segments in order, and a run's
\* manifest is neither deleted nor overwritten before that run has read it.
C19_ManifestIsolated ==
    /\ \A r \in Runs : rpc[r] = "written" => rlist = <<rsegs[r]>>
    /\ \A c \in DOMAIN rcalls : rcalls[c].manifest = <<rsegs[rcalls[c].run]>>

====
